----------------------------- MODULE Spec2Model -----------------------------
(***************************************************************************)
(* Coach Contact Extractor (app.py): the scraper logic and the run loop.   *)
(*                                                                         *)
(* Python strings are sequences of one-character strings, so that the      *)
(* substring tests, the regular expressions and the sort keys of the code  *)
(* are computed character by character.  A DOM element is a record         *)
(*   [text  : what el.get_text(" ", strip=True) returns,                   *)
(*    hrefs : the href values of the <a href> elements in it, in order,    *)
(*    attrs : the other string attribute values of the tags in it]         *)
(* and a parsed page (soup) is a record                                    *)
(*   [match : selector -> the elements soup.select(selector) returns,      *)
(*    body  : <<soup.body>> or <<>> when there is none,                    *)
(*    doc   : the document as an element].                                 *)
(***************************************************************************)
EXTENDS Integers, Sequences, FiniteSets, TLC

VARIABLES
    targets,      \* run: the list of Target rows built from the CSV (lines 576-602)
    idx,          \* run loop: position of the target being processed (0 before the loop)
    pc,           \* where the run is
    stage,        \* process_one_target: the stage in progress (0 before the first)
    emails,       \* process_one_target: emails
    pages,        \* process_one_target: html and sd_html, parsed
    bios,         \* extract_from_bios: bio_links, the loop position, emails
    results,      \* run loop: results
    logs,         \* run loop: logs
    ui,           \* what the run showed: the st.error message, the output rows
    io,           \* every session.get and time.sleep call so far, in order
    hist,         \* of the target in progress: what each stage yielded, what was returned
    budget,       \* how many more fetches the network lets fail
    probe         \* a pure function exercised on its own: its input and its result

vars == <<targets, idx, pc, stage, emails, pages, bios, results, logs, ui, io, hist, budget, probe>>

-----------------------------------------------------------------------------
(* Characters                                                              *)

\* The characters of the model, in code-point order (Python compares str by code point).
\* The grave accent is left out: the parser does not take it inside a string.
CodePoints ==
    <<"\t","\n"," ","!","\"","#","$","%","&","'","(",")","*","+",",","-",".","/","0","1","2","3","4","5","6","7","8","9",":",";","<","=",">","?","@","A","B","C","D","E","F","G","H","I","J","K","L","M","N","O","P","Q","R","S","T","U","V","W","X","Y","Z","[","\\","]","^","_","a","b","c","d","e","f","g","h","i","j","k","l","m","n","o","p","q","r","s","t","u","v","w","x","y","z","{","|","}","~">>

Char == {CodePoints[i] : i \in DOMAIN CodePoints}

Ord == [c \in Char |-> CHOOSE i \in DOMAIN CodePoints : CodePoints[i] = c]

UpperChars == {CodePoints[i] : i \in Ord["A"]..Ord["Z"]}
LowerChars == {CodePoints[i] : i \in Ord["a"]..Ord["z"]}
DigitChars == {CodePoints[i] : i \in Ord["0"]..Ord["9"]}

\* \s of the re module, within Char
Space == {" ", "\t", "\n"}

\* \w of the re module, within Char
WordChars == UpperChars \cup LowerChars \cup DigitChars \cup {"_"}

\* str.lower() on one character
LowerChar(c) == IF c \in UpperChars THEN CodePoints[Ord[c] - Ord["A"] + Ord["a"]] ELSE c

\* str.lower()
Lower(s) == [i \in DOMAIN s |-> LowerChar(s[i])]

-----------------------------------------------------------------------------
(* Strings                                                                 *)

\* s[i:] of Python with i counted from 1
From(s, i) == SubSeq(s, i, Len(s))

\* s.startswith(p, i-1): p occurs in s at position i
OccursAt(s, p, i) ==
    /\ i >= 1
    /\ i + Len(p) - 1 <= Len(s)
    /\ \A j \in 1..Len(p) : s[i + j - 1] = p[j]

\* p in s
Contains(s, p) == \E i \in 1..(Len(s) - Len(p) + 1) : OccursAt(s, p, i)

\* s.find(p) + 1, or 0 when p does not occur
Find(s, p) ==
    LET At(j) == OccursAt(s, p, j)
        n == Len(s) - Len(p) + 1
    IN  IF \E j \in 1..n : At(j)
        THEN CHOOSE j \in 1..n : At(j) /\ \A k \in 1..(j - 1) : ~At(k)
        ELSE 0

\* the position of the first character of class cls at or after i, or Len(s) + 1
FirstOf(s, i, cls) ==
    LET In(j) == s[j] \in cls
    IN  IF \E j \in i..Len(s) : In(j)
        THEN CHOOSE j \in i..Len(s) : In(j) /\ \A k \in i..(j - 1) : ~In(k)
        ELSE Len(s) + 1

\* the length of the longest run of characters of class cls starting at position i
RunLen(s, i, cls) ==
    LET Out(j) == s[j] \notin cls
    IN  IF \E j \in i..Len(s) : Out(j)
        THEN (CHOOSE j \in i..Len(s) : Out(j) /\ \A k \in i..(j - 1) : ~Out(k)) - i
        ELSE IF i > Len(s) THEN 0 ELSE Len(s) - i + 1

\* the length of the longest run of characters of class cls ending at position i
RunLenBack(s, i, cls) ==
    LET Out(j) == s[j] \notin cls
    IN  IF \E j \in 1..i : Out(j)
        THEN i - (CHOOSE j \in 1..i : Out(j) /\ \A k \in (j + 1)..i : ~Out(k))
        ELSE IF i < 1 THEN 0 ELSE i

\* s.strip()
Strip(s) ==
    LET a == RunLen(s, 1, Space)
    IN  IF a = Len(s) THEN <<>>
        ELSE SubSeq(s, a + 1, Len(s) - RunLenBack(s, Len(s), Space))

\* s < t in Python's str order
StrLess(s, t) ==
    LET n == IF Len(s) < Len(t) THEN Len(s) ELSE Len(t)
        Differ(j) == s[j] # t[j]
    IN  IF \E j \in 1..n : Differ(j)
        THEN LET d == CHOOSE j \in 1..n : Differ(j) /\ \A k \in 1..(j - 1) : ~Differ(k)
             IN  Ord[s[d]] < Ord[t[d]]
        ELSE Len(s) < Len(t)

\* the elements of a sequence
Range(f) == {f[i] : i \in DOMAIN f}

\* sorted(S) for a set S of strings
RECURSIVE Sorted(_)
Sorted(S) ==
    IF S = {} THEN <<>>
    ELSE LET m == CHOOSE x \in S : \A y \in S \ {x} : StrLess(x, y)
         IN  <<m>> \o Sorted(S \ {m})

\* max of a non-empty set of integers
Max(S) == CHOOSE x \in S : \A y \in S : y <= x

-----------------------------------------------------------------------------
(* Regular expressions of the scraper                                      *)

\* p occurs in s at position i, ignoring case (p is lowercase)
OccursAtCI(s, p, i) ==
    /\ i >= 1
    /\ i + Len(p) - 1 <= Len(s)
    /\ \A j \in 1..Len(p) : LowerChar(s[i + j - 1]) = p[j]

\* \b at the gap before position p
Boundary(s, p) ==
    ((p - 1) \in DOMAIN s /\ s[p - 1] \in WordChars) # (p \in DOMAIN s /\ s[p] \in WordChars)

\* re.compile(r"\b<lit>\b", re.IGNORECASE).search(s)
SearchWord(s, lit) ==
    \E i \in 1..(Len(s) - Len(lit) + 1) :
        OccursAtCI(s, lit, i) /\ Boundary(s, i) /\ Boundary(s, i + Len(lit))

\* re.compile(r"\s{minws,}<lit>\s{minws,}", re.IGNORECASE) matches at position i
\* of s: the length of the match, or 0
MarkerAt(s, i, lit, minws) ==
    LET w  == RunLen(s, i, Space)
        w2 == RunLen(s, i + w + Len(lit), Space)
    IN  IF w >= minws /\ OccursAtCI(s, lit, i + w) /\ w2 >= minws
        THEN w + Len(lit) + w2
        ELSE 0

\* pattern.sub(repl, s) from position i of s on: the leftmost match at or after
\* i is replaced, and the scan goes on behind it
RECURSIVE SubMarkerAt(_, _, _, _, _)
SubMarkerAt(s, i, lit, minws, repl) ==
    LET Hit(j) == MarkerAt(s, j, lit, minws) > 0
    IN  IF \E j \in i..Len(s) : Hit(j)
        THEN LET j == CHOOSE m \in i..Len(s) : Hit(m) /\ \A k \in i..(m - 1) : ~Hit(k)
             IN  SubSeq(s, i, j - 1) \o repl
                 \o SubMarkerAt(s, j + MarkerAt(s, j, lit, minws), lit, minws, repl)
        ELSE SubSeq(s, i, Len(s))

SubMarker(s, lit, minws, repl) == SubMarkerAt(s, 1, lit, minws, repl)

\* re.sub(r"\s+", " ", s): the first character of a run of spaces becomes " ",
\* the others go
CollapseSpace(s) ==
    LET Kept(c) == c # ""
    IN  SelectSeq([i \in DOMAIN s |->
                      IF s[i] \notin Space THEN s[i]
                      ELSE IF i > 1 /\ s[i - 1] \in Space THEN "" ELSE " "],
                  Kept)

LetterChars == UpperChars \cup LowerChars
LocalChars  == LetterChars \cup DigitChars \cup {".", "_", "%", "+", "-"}
DomainChars == LetterChars \cup DigitChars \cup {".", "-"}

\* EMAIL_RE matches at position i of s: the position of the last character of the
\* match, or 0.  The local part is the whole run of its characters, "@" follows,
\* and the domain ends with the last dot of its run that two letters follow.
EmailAt(s, i) ==
    LET l  == RunLen(s, i, LocalChars)
        a  == i + l
        d  == RunLen(s, a + 1, DomainChars)
        ks == {k \in 2..d : /\ s[a + k] = "."
                            /\ RunLen(s, a + k + 1, LetterChars) >= 2}
    IN  IF l = 0 \/ ~(a <= Len(s) /\ s[a] = "@") \/ ks = {} THEN 0
        ELSE a + Max(ks) + RunLen(s, a + Max(ks) + 1, LetterChars)

\* the matches of EMAIL_RE in s from position i on: the leftmost one, and those
\* behind it
RECURSIVE EMAIL_RE_At(_, _)
EMAIL_RE_At(s, i) ==
    LET Hit(j) == EmailAt(s, j) > 0
    IN  IF \E j \in i..Len(s) : Hit(j)
        THEN LET j == CHOOSE m \in i..Len(s) : Hit(m) /\ \A k \in i..(m - 1) : ~Hit(k)
             IN  {SubSeq(s, j, EmailAt(s, j))} \cup EMAIL_RE_At(s, EmailAt(s, j) + 1)
        ELSE {}

\* EMAIL_RE.findall(s), as a set
EMAIL_RE(s) == EMAIL_RE_At(s, 1)

OBFUSCATIONS ==
    << [lit |-> <<"[","a","t","]">>,  minws |-> 0, repl |-> <<"@">>],
       [lit |-> <<"(","a","t",")">>,  minws |-> 0, repl |-> <<"@">>],
       [lit |-> <<"a","t">>,    minws |-> 1, repl |-> <<"@">>],
       [lit |-> <<"[","d","o","t","]">>, minws |-> 0, repl |-> <<".">>],
       [lit |-> <<"(","d","o","t",")">>, minws |-> 0, repl |-> <<".">>],
       [lit |-> <<"d","o","t">>,   minws |-> 1, repl |-> <<".">>] >>

TARGET_ROLE_KEYWORDS ==
    << <<"h","e","a","d"," ","c","o","a","c","h">>, <<"a","s","s","i","s","t","a","n","t"," ","c","o","a","c","h">>, <<"a","s","s","t"," ","c","o","a","c","h">>, <<"a","s","s","o","c","i","a","t","e"," ","h","e","a","d"," ","c","o","a","c","h">>,
       <<"a","s","s","o","c","i","a","t","e"," ","c","o","a","c","h">>, <<"i","n","t","e","r","i","m"," ","h","e","a","d"," ","c","o","a","c","h">>, <<"c","o","a","c","h">>, <<"r","e","c","r","u","i","t","i","n","g">>,
       <<"r","e","c","r","u","i","t","i","n","g"," ","c","o","o","r","d","i","n","a","t","o","r">>, <<"r","e","c","r","u","i","t","i","n","g"," ","c","o","o","r","d">>, <<"d","i","r","e","c","t","o","r"," ","o","f"," ","r","e","c","r","u","i","t","i","n","g">>,
       <<"r","e","c","r","u","i","t","i","n","g"," ","d","i","r","e","c","t","o","r">>, <<"r","e","c","r","u","i","t","i","n","g"," ","o","p","e","r","a","t","i","o","n","s">>, <<"r","e","c","r","u","i","t","i","n","g"," ","o","p","s">>,
       <<"c","o","o","r","d","i","n","a","t","o","r"," ","o","f"," ","r","e","c","r","u","i","t","i","n","g">> >>

EXCLUDE_ROLE_KEYWORDS ==
    << <<"s","t","u","d","e","n","t"," ","a","s","s","i","s","t","a","n","t">>, <<"s","t","u","d","e","n","t"," ","a","s","s","t">>, <<"s","t","u","d","e","n","t","-","a","t","h","l","e","t","e"," ","a","s","s","i","s","t","a","n","t">>,
       <<"g","r","a","d","u","a","t","e"," ","a","s","s","i","s","t","a","n","t">>, <<"g","r","a","d"," ","a","s","s","i","s","t","a","n","t">>, <<"g","r","a","d"," ","a","s","s","t">> >>

EXCLUDE_ABBREV_PATTERNS == << <<"g","a">>, <<"g",".","a",".">>, <<"s","a">>, <<"s",".","a",".">> >>

RECURSIVE deobfuscateFrom(_, _)
deobfuscateFrom(t, n) ==
    IF n > Len(OBFUSCATIONS) THEN t
    ELSE deobfuscateFrom(SubMarker(t, OBFUSCATIONS[n].lit, OBFUSCATIONS[n].minws,
                                   OBFUSCATIONS[n].repl), n + 1)

deobfuscate(text) == deobfuscateFrom(text, 1)

norm(s) == CollapseSpace(Strip(Lower(s)))

-----------------------------------------------------------------------------
(* URLs: urlparse and urljoin of urllib.parse, and the bracketed-host check  *)
(* of ipaddress that urlsplit makes                                          *)

\* the exception urlsplit raises, as a result; a function that returns a list
\* gives <<ValueError>> when it raises
ValueError == <<"ValueError">>

\* _WHATWG_C0_CONTROL_OR_SPACE and _UNSAFE_URL_BYTES_TO_REMOVE, within Char
C0_CONTROL_OR_SPACE == {"\t", "\n", " "}
UNSAFE_URL_BYTES_TO_REMOVE == {"\t", "\n"}

scheme_chars == LowerChars \cup UpperChars \cup DigitChars \cup {"+", "-", "."}

uses_relative ==
    { <<>>, <<"f","t","p">>, <<"h","t","t","p">>, <<"g","o","p","h","e","r">>, <<"n","n","t","p">>, <<"i","m","a","p">>, <<"w","a","i","s">>, <<"f","i","l","e">>, <<"h","t","t","p","s">>,
      <<"s","h","t","t","p">>, <<"m","m","s">>, <<"p","r","o","s","p","e","r","o">>, <<"r","t","s","p">>, <<"r","t","s","p","s">>, <<"r","t","s","p","u">>, <<"s","f","t","p">>, <<"s","v","n">>,
      <<"s","v","n","+","s","s","h">>, <<"w","s">>, <<"w","s","s">> }

uses_netloc ==
    { <<>>, <<"f","t","p">>, <<"h","t","t","p">>, <<"g","o","p","h","e","r">>, <<"n","n","t","p">>, <<"t","e","l","n","e","t">>, <<"i","m","a","p">>, <<"w","a","i","s">>, <<"f","i","l","e">>,
      <<"m","m","s">>, <<"h","t","t","p","s">>, <<"s","h","t","t","p">>, <<"s","n","e","w","s">>, <<"p","r","o","s","p","e","r","o">>, <<"r","t","s","p">>, <<"r","t","s","p","s">>, <<"r","t","s","p","u">>,
      <<"r","s","y","n","c">>, <<"s","v","n">>, <<"s","v","n","+","s","s","h">>, <<"s","f","t","p">>, <<"n","f","s">>, <<"g","i","t">>, <<"g","i","t","+","s","s","h">>, <<"w","s">>, <<"w","s","s">> }

uses_params ==
    { <<>>, <<"f","t","p">>, <<"h","d","l">>, <<"p","r","o","s","p","e","r","o">>, <<"h","t","t","p">>, <<"i","m","a","p">>, <<"h","t","t","p","s">>, <<"s","h","t","t","p">>, <<"r","t","s","p">>,
      <<"r","t","s","p","s">>, <<"r","t","s","p","u">>, <<"s","i","p">>, <<"s","i","p","s">>, <<"m","m","s">>, <<"s","f","t","p">>, <<"t","e","l">> }

\* s without its characters of class cls
Without(s, cls) ==
    LET Kept(c) == c \notin cls
    IN  SelectSeq(s, Kept)

\* s.split(c) for a character c
Split(s, c) ==
    LET P == {i \in DOMAIN s : s[i] = c}
        n == Cardinality(P)
        at(k) == IF k = 0 THEN 0
                 ELSE IF k > n THEN Len(s) + 1
                 ELSE CHOOSE i \in P : Cardinality({j \in P : j < i}) = k - 1
    IN  [k \in 1..(n + 1) |-> SubSeq(s, at(k - 1) + 1, at(k) - 1)]

\* sep.join(q)
RECURSIVE JoinBy(_, _)
JoinBy(q, sep) ==
    IF q = <<>> THEN <<>>
    ELSE IF Len(q) = 1 THEN q[1]
    ELSE q[1] \o sep \o JoinBy(Tail(q), sep)

HexChars == DigitChars \cup {"a", "b", "c", "d", "e", "f", "A", "B", "C", "D", "E", "F"}

\* int(o) for a string of one to three decimal digits
OctetValue(o) ==
    LET d(i) == Ord[o[i]] - Ord["0"]
    IN  IF Len(o) = 1 THEN d(1)
        ELSE IF Len(o) = 2 THEN 10 * d(1) + d(2)
        ELSE 100 * d(1) + 10 * d(2) + d(3)

\* IPv4Address._parse_octet(o) does not raise
IsOctet(o) ==
    /\ o # <<>>
    /\ \A i \in DOMAIN o : o[i] \in DigitChars
    /\ Len(o) <= 3
    /\ o = <<"0">> \/ o[1] # "0"
    /\ OctetValue(o) <= 255

\* IPv4Address(a) does not raise
IsIPv4(a) ==
    /\ "/" \notin Range(a)
    /\ a # <<>>
    /\ LET octets == Split(a, ".")
       IN  Len(octets) = 4 /\ \A i \in 1..4 : IsOctet(octets[i])

\* IPv6Address._parse_hextet(h) does not raise
IsHextet(h) ==
    /\ \A i \in DOMAIN h : h[i] \in HexChars
    /\ Len(h) <= 4
    /\ h # <<>>

\* _ip_int_from_string, the hextets around the "::" at position skip of parts
IsIPv6Around(parts, skip) ==
    LET n  == Len(parts)
        hi == IF parts[1] = <<>> THEN skip - 2 ELSE skip - 1
        lo == IF parts[n] = <<>> THEN n - skip - 1 ELSE n - skip
    IN  /\ parts[1] = <<>> => hi = 0
        /\ parts[n] = <<>> => lo = 0
        /\ 8 - (hi + lo) >= 1
        /\ \A i \in (1..hi) \cup ((n - lo + 1)..n) : IsHextet(parts[i])

\* _ip_int_from_string, for the positions skips of the empty inner parts: at most
\* one "::", and 8 hextets (_HEXTET_COUNT) without it
IsIPv6Skipping(parts, skips) ==
    /\ Len(parts) <= 8 + 1
    /\ Cardinality(skips) <= 1
    /\ IF skips # {}
       THEN IsIPv6Around(parts, CHOOSE i \in skips : TRUE)
       ELSE Len(parts) = 8 /\ \A i \in DOMAIN parts : IsHextet(parts[i])

IsIPv6Parts(parts) ==
    IsIPv6Skipping(parts, {i \in 2..(Len(parts) - 1) : parts[i] = <<>>})

\* _ip_int_from_string, for ip_str.split(':').  An IPv4 suffix stands for two
\* hextets, which are written "0" here: their value does not matter to the checks.
IsIPv6Split(split) ==
    /\ Len(split) >= 3
    /\ IF "." \in Range(split[Len(split)])
       THEN /\ IsIPv4(split[Len(split)])
            /\ IsIPv6Parts(SubSeq(split, 1, Len(split) - 1) \o <<<<"0">>, <<"0">>>>)
       ELSE IsIPv6Parts(split)

\* _split_scope_id(a) does not raise, for the position pct of the first "%" of a
IsScoped(a, pct) ==
    pct > Len(a) \/ (pct < Len(a) /\ "%" \notin Range(SubSeq(a, pct + 1, Len(a))))

\* IPv6Address(a) does not raise
IsIPv6(a) ==
    /\ "/" \notin Range(a)
    /\ IsScoped(a, FirstOf(a, 1, {"%"}))
    /\ FirstOf(a, 1, {"%"}) > 1
    /\ IsIPv6Split(Split(SubSeq(a, 1, FirstOf(a, 1, {"%"}) - 1), ":"))

\* _check_bracketed_host(h) does not raise: an IPvFuture address, or what
\* ipaddress.ip_address takes for an IPv6 address (an IPv4 address raises too)
IsBracketedHost(h) ==
    IF OccursAt(h, <<"v">>, 1)
    THEN LET k == RunLen(h, 2, HexChars)
         IN  k >= 1 /\ OccursAt(h, <<".">>, k + 2) /\ Len(h) >= k + 3
    ELSE IsIPv6(h)

\* s up to its first character of class cls, and s after it
Before(s, cls) == SubSeq(s, 1, FirstOf(s, 1, cls) - 1)
After(s, cls)  == SubSeq(s, FirstOf(s, 1, cls) + 1, Len(s))

\* netloc.partition('[')[2].partition(']')[0]
BracketedHost(nl) == Before(After(nl, {"["}), {"]"})

\* lines 495-500 of urlsplit raise for the netloc nl
NetlocRaises(nl) ==
    \/ ("[" \in Range(nl)) # ("]" \in Range(nl))
    \/ "[" \in Range(nl) /\ ~IsBracketedHost(BracketedHost(nl))

\* url.lstrip(_WHATWG_C0_CONTROL_OR_SPACE) and scheme.strip(...), without the
\* unsafe characters
CleanUrl(url) ==
    Without(SubSeq(url, RunLen(url, 1, C0_CONTROL_OR_SPACE) + 1, Len(url)),
            UNSAFE_URL_BYTES_TO_REMOVE)
CleanScheme(scheme) ==
    Without(SubSeq(scheme, RunLen(scheme, 1, C0_CONTROL_OR_SPACE) + 1,
                   Len(scheme) - RunLenBack(scheme, Len(scheme), C0_CONTROL_OR_SPACE)),
            UNSAFE_URL_BYTES_TO_REMOVE)

\* url has a scheme that ends before its first ":", at position i
HasScheme(url, i) ==
    /\ i <= Len(url)
    /\ i > 1
    /\ url[1] \in LowerChars \cup UpperChars
    /\ \A k \in 1..(i - 1) : url[k] \in scheme_chars

\* urlsplit from the "?" on: the query is split off
SplitQuery(sch, nl, url, fragment) ==
    [raises   |-> NetlocRaises(nl),
     scheme   |-> sch,
     netloc   |-> nl,
     path     |-> Before(url, {"?"}),
     query    |-> After(url, {"?"}),
     fragment |-> fragment]

\* urlsplit from the "#" on: the fragment is split off
SplitFragment(sch, nl, url) == SplitQuery(sch, nl, Before(url, {"#"}), After(url, {"#"}))

\* urlsplit from the "//" on: the netloc ends before the first of "/?#"
SplitNetloc(sch, url) ==
    LET d == FirstOf(url, 3, {"/", "?", "#"})
    IN  SplitFragment(sch,
                      IF OccursAt(url, <<"/","/">>, 1) THEN SubSeq(url, 3, d - 1) ELSE <<>>,
                      IF OccursAt(url, <<"/","/">>, 1) THEN SubSeq(url, d, Len(url)) ELSE url)

\* urlsplit from the scheme on, for the position i of the first ":"
SplitScheme(url, scheme, i) ==
    SplitNetloc(IF HasScheme(url, i) THEN Lower(SubSeq(url, 1, i - 1)) ELSE scheme,
                IF HasScheme(url, i) THEN SubSeq(url, i + 1, Len(url)) ELSE url)

\* urlsplit(url, scheme): the five components, or raises
urlsplit(url, scheme) ==
    SplitScheme(CleanUrl(url), CleanScheme(scheme), FirstOf(CleanUrl(url), 1, {":"}))

\* _splitparams(url), for a url with a ";" in it
splitparams(url) ==
    LET Slash(j) == url[j] = "/"
        last == IF \E j \in DOMAIN url : Slash(j)
                THEN CHOOSE j \in DOMAIN url : Slash(j) /\ \A k \in (j + 1)..Len(url) : ~Slash(k)
                ELSE 1
        i    == FirstOf(url, last, {";"})
    IN  IF i > Len(url) THEN <<url, <<>>>>
        ELSE <<SubSeq(url, 1, i - 1), SubSeq(url, i + 1, Len(url))>>

\* lines 397-401 of urlparse, for the result r of urlsplit and the path and the
\* params ps
ParseResult(r, ps) ==
    [raises |-> r.raises, scheme |-> r.scheme, netloc |-> r.netloc, path |-> ps[1],
     params |-> ps[2], query |-> r.query, fragment |-> r.fragment]

SplitParams(r) ==
    ParseResult(r, IF r.scheme \in uses_params /\ ";" \in Range(r.path)
                   THEN splitparams(r.path)
                   ELSE <<r.path, <<>>>>)

\* urlparse(url, scheme): the six components, or raises
urlparse(url, scheme) == SplitParams(urlsplit(url, scheme))

\* url + sep + x if x
Suffixed(url, sep, x) == IF x # <<>> THEN url \o sep \o x ELSE url

\* urlunsplit((scheme, netloc, url, query, fragment))
urlunsplit(c) ==
    Suffixed(
      Suffixed(
        (IF c.scheme # <<>> THEN c.scheme \o <<":">> ELSE <<>>)
        \o (IF \/ c.netloc # <<>>
               \/ c.scheme # <<>> /\ c.scheme \in uses_netloc /\ ~OccursAt(c.url, <<"/","/">>, 1)
            THEN <<"/","/">> \o c.netloc
                 \o (IF c.url # <<>> /\ c.url[1] # "/" THEN <<"/">> ELSE <<>>)
            ELSE <<>>)
        \o c.url,
        <<"?">>, c.query),
      <<"#">>, c.fragment)

\* urlunparse((scheme, netloc, path, params, query, fragment))
urlunparse(c) ==
    urlunsplit([scheme |-> c.scheme, netloc |-> c.netloc,
                url |-> Suffixed(c.path, <<";">>, c.params),
                query |-> c.query, fragment |-> c.fragment])

\* the loop of urljoin over the segments from the i-th on: ".." takes the last
\* resolved segment away, "." is skipped
RECURSIVE ResolveFrom(_, _, _)
ResolveFrom(segments, i, resolved) ==
    IF i > Len(segments) THEN resolved
    ELSE IF segments[i] = <<".",".">>
         THEN ResolveFrom(segments, i + 1,
                          SubSeq(resolved, 1, IF resolved = <<>> THEN 0 ELSE Len(resolved) - 1))
    ELSE IF segments[i] = <<".">> THEN ResolveFrom(segments, i + 1, resolved)
    ELSE ResolveFrom(segments, i + 1, Append(resolved, segments[i]))

\* base_parts of urljoin: the segments of the base path without the last one,
\* unless it is empty
BaseParts(bsplit) ==
    IF bsplit[Len(bsplit)] # <<>> THEN SubSeq(bsplit, 1, Len(bsplit) - 1) ELSE bsplit

\* segments[1:-1] = filter(None, segments[1:-1])
Squeezed(segments) ==
    LET Filled(x) == x # <<>>
    IN  IF Len(segments) < 2 THEN segments
        ELSE <<segments[1]>> \o SelectSeq(SubSeq(segments, 2, Len(segments) - 1), Filled)
             \o <<segments[Len(segments)]>>

\* '/'.join(resolved_path) or '/'
Resolved(segments) ==
    LET joined == JoinBy(ResolveFrom(segments, 1, <<>>)
                         \o (IF segments[Len(segments)] \in {<<".">>, <<".",".">>}
                             THEN <<<<>>>> ELSE <<>>),
                         <<"/">>)
    IN  IF joined = <<>> THEN <<"/">> ELSE joined

\* the path urljoin gives for the base path bpath and the path upath
JoinedPath(bpath, upath) ==
    Resolved(IF OccursAt(upath, <<"/">>, 1) THEN Split(upath, "/")
             ELSE Squeezed(BaseParts(Split(bpath, "/")) \o Split(upath, "/")))

\* urljoin for the parsed base b and the parsed url u with a scheme that is
\* relative and the same as that of the base
JoinRelative(b, u, nl) ==
    urlunparse(
        IF u.scheme \in uses_netloc /\ u.netloc # <<>> THEN u
        ELSE IF u.path = <<>> /\ u.params = <<>>
        THEN [u EXCEPT !.netloc = nl, !.path = b.path, !.params = b.params,
                       !.query = IF u.query = <<>> THEN b.query ELSE u.query]
        ELSE [u EXCEPT !.netloc = nl, !.path = JoinedPath(b.path, u.path)])

\* urljoin for the parsed base b and the parsed url u
JoinParsed(url, b, u) ==
    IF b.raises \/ u.raises THEN ValueError
    ELSE IF u.scheme # b.scheme \/ u.scheme \notin uses_relative THEN url
    ELSE JoinRelative(b, u, IF u.scheme \in uses_netloc THEN b.netloc ELSE u.netloc)

\* the scheme of the base is the default scheme of the url
JoinBase(url, b) == JoinParsed(url, b, urlparse(url, b.scheme))

\* urljoin(base, url), or ValueError when urlparse raises on one of them
urljoin(base, url) ==
    IF base = <<>> THEN url
    ELSE IF url = <<>> THEN base
    ELSE JoinBase(url, urlparse(base, <<>>))

\* r.netloc and r.path of a result of urlparse, or ValueError
NetlocOf(r) == IF r.raises THEN ValueError ELSE r.netloc
PathOf(r)   == IF r.raises THEN ValueError ELSE r.path

\* urlparse(u).netloc
netloc(u) == NetlocOf(urlparse(u, <<>>))

\* urlparse(u).path
path(u) == PathOf(urlparse(u, <<>>))

\* lines 282-284 for the parsed urls: an exception of urlparse gives False
SameNetloc(ra, rb) ==
    ~ra.raises /\ ~rb.raises /\ Lower(ra.netloc) = Lower(rb.netloc)

\* lines 280-284
is_same_domain(a, b) == SameNetloc(urlparse(a, <<>>), urlparse(b, <<>>))

-----------------------------------------------------------------------------
(* Scraper logic                                                           *)

\* the address of a mailto: href: href.split("mailto:", 1)[1].split("?", 1)[0].strip()
MailtoAddress(href) ==
    LET rest == From(href, Len(<<"m","a","i","l","t","o",":">>) + 1)
    IN  Strip(SubSeq(rest, 1, FirstOf(rest, 1, {"?"}) - 1))

\* the addresses of the a[href^="mailto:"] anchors of an element
MailtoEmails(el) ==
    {e \in {MailtoAddress(el.hrefs[i]) :
                i \in {j \in DOMAIN el.hrefs : OccursAt(el.hrefs[j], <<"m","a","i","l","t","o",":">>, 1)}} :
        e # <<>>}

\* {e.strip() for e in emails if e.strip()}
StripAll(es) == {e \in {Strip(x) : x \in es} : e # <<>>}

\* the string attribute values of the tags of an element: an href is one of them
AttrValues(el) == el.attrs \cup Range(el.hrefs)

extract_emails_anywhere(soup) ==
    StripAll(MailtoEmails(soup.doc)
             \cup EMAIL_RE(deobfuscate(soup.doc.text))
             \cup UNION {EMAIL_RE(deobfuscate(val)) : val \in AttrValues(soup.doc)})

MIN_BLOCKS == 5
MAX_BLOCKS == 400

\* the selectors tried after "table tr", in order
selectors ==
    << ".sidearm-staff-directory__item", ".sidearm-roster-coach", ".staff-member",
       ".coaches-item", ".coach", ".bio", "article", "li", "div" >>

Selectors == {"table tr"} \cup Range(selectors)

\* lines 323-328 without the upper bound of line 325
RECURSIVE find_candidate_blocks_unbounded(_, _)
find_candidate_blocks_unbounded(soup, n) ==
    IF n > Len(selectors)
    THEN IF soup.body # <<>> THEN soup.body ELSE <<soup.doc>>
    ELSE LET els == soup.match[selectors[n]]
         IN  IF MIN_BLOCKS <= Len(els)
             THEN els
             ELSE find_candidate_blocks_unbounded(soup, n + 1)

\* lines 323-328: the first selector with 5 to 400 matches, or the body, or the document
RECURSIVE find_candidate_blocks_from(_, _)
find_candidate_blocks_from(soup, n) ==
    IF n > Len(selectors)
    THEN IF soup.body # <<>> THEN soup.body ELSE <<soup.doc>>
    ELSE LET els == soup.match[selectors[n]]
         IN  IF MIN_BLOCKS <= Len(els) /\ Len(els) <= MAX_BLOCKS
             THEN els
             ELSE find_candidate_blocks_from(soup, n + 1)

find_candidate_blocks(soup) ==
    LET rows == soup.match["table tr"]
    IN  IF Len(rows) >= MIN_BLOCKS THEN rows ELSE find_candidate_blocks_from(soup, 1)

block_text(el) == norm(deobfuscate(el.text))

is_excluded_block(text) ==
    \/ \E i \in DOMAIN EXCLUDE_ROLE_KEYWORDS : Contains(text, EXCLUDE_ROLE_KEYWORDS[i])
    \/ \E i \in DOMAIN EXCLUDE_ABBREV_PATTERNS : SearchWord(text, EXCLUDE_ABBREV_PATTERNS[i])

\* lines 342-345 without the exclusion test
is_target_block_no_exclusion(text) ==
    \E i \in DOMAIN TARGET_ROLE_KEYWORDS : Contains(text, TARGET_ROLE_KEYWORDS[i])

is_target_block(text) ==
    IF is_excluded_block(text) THEN FALSE
    ELSE \E i \in DOMAIN TARGET_ROLE_KEYWORDS : Contains(text, TARGET_ROLE_KEYWORDS[i])

emails_in_block(el) ==
    StripAll(MailtoEmails(el) \cup EMAIL_RE(deobfuscate(el.text)))

\* re.sub(r"[^a-z0-9\s']", " ", s)
CleanSport(s) ==
    [i \in DOMAIN s |->
        IF s[i] \in LowerChars \cup DigitChars \cup Space \cup {"'"} THEN s[i] ELSE " "]

\* s.replace(c, "") for a character c
RemoveChar(s, c) ==
    LET Kept(x) == x # c
    IN  SelectSeq(s, Kept)

\* [w for w in re.split(r"\s+", s) if w], as a set
Words(s) ==
    {SubSeq(s, i, FirstOf(s, i, Space) - 1) :
        i \in {j \in DOMAIN s : s[j] \notin Space /\ (j = 1 \/ s[j - 1] \in Space)}}

MIN_WORD_LEN == 4

\* line 368 replaces a character that line 362 has already turned into a space
sport_tokens(sport) ==
    LET s_clean == Strip(CollapseSpace(CleanSport(Lower(Strip(sport)))))
        phrase  == IF s_clean # <<>> THEN {s_clean, RemoveChar(s_clean, "'")} ELSE {}
        words   == {w \in Words(s_clean) : Len(w) >= MIN_WORD_LEN}
        swim    == IF Contains(s_clean, <<"s","w","i","m">>) \/ Contains(s_clean, <<"s","w","i","m","m","i","n","g">>)
                   THEN {<<"s","w","i","m","m","i","n","g">>, <<"s","w","i","m">>, <<"s","w","i","m","m","i","n","g"," ","a","n","d"," ","d","i","v","i","n","g">>, <<"s","w","i","m","m","i","n","g"," ","&"," ","d","i","v","i","n","g">>,
                         <<"s","w","i","m"," ","a","n","d"," ","d","i","v","e">>, <<"s","w","i","m"," ","&"," ","d","i","v","e">>, <<"s","w","i","m","d","i","v","e">>}
                   ELSE {}
        bball   == IF Contains(s_clean, <<"b","a","s","k","e","t","b","a","l","l">>)
                   THEN {<<"b","a","s","k","e","t","b","a","l","l">>}
                        \cup (IF Contains(s_clean, <<"m","e","n">>)
                              THEN {<<"m","b","k","b">>, <<"m"," ","b","a","s","k","e","t","b","a","l","l">>, <<"m","e","n","s"," ","b","a","s","k","e","t","b","a","l","l">>} ELSE {})
                        \cup (IF Contains(s_clean, <<"w","o","m","e","n">>)
                              THEN {<<"w","b","k","b">>, <<"w"," ","b","a","s","k","e","t","b","a","l","l">>, <<"w","o","m","e","n","s"," ","b","a","s","k","e","t","b","a","l","l">>} ELSE {})
                   ELSE {}
        soccer  == IF Contains(s_clean, <<"s","o","c","c","e","r">>)
                   THEN {<<"s","o","c","c","e","r">>}
                        \cup (IF Contains(s_clean, <<"m","e","n">>)
                              THEN {<<"m","s","o","c">>, <<"m","e","n","s"," ","s","o","c","c","e","r">>} ELSE {})
                        \cup (IF Contains(s_clean, <<"w","o","m","e","n">>)
                              THEN {<<"w","s","o","c">>, <<"w","o","m","e","n","s"," ","s","o","c","c","e","r">>} ELSE {})
                   ELSE {}
    IN  {t \in phrase \cup words \cup swim \cup bball \cup soccer : t # <<>>}

is_diving_only_for_swim_target(text, sport) ==
    LET s          == Lower(Strip(sport))
        padded     == <<" ">> \o text \o <<" ">>
        has_diving == \/ Contains(text, <<"d","i","v","i","n","g">>)
                      \/ Contains(padded, <<" ","d","i","v","e"," ">>)
                      \/ Contains(text, <<"d","i","v","e","r">>)
        has_swim   == \/ Contains(text, <<"s","w","i","m","m","i","n","g">>)
                      \/ Contains(padded, <<" ","s","w","i","m"," ">>)
                      \/ Contains(text, <<"s","w","i","m","&","d","i","v","e">>)
                      \/ Contains(text, <<"s","w","i","m"," ","a","n","d"," ","d","i","v","e">>)
    IN  IF ~Contains(s, <<"s","w","i","m">>) /\ ~Contains(s, <<"s","w","i","m","m","i","n","g">>) THEN FALSE
        ELSE has_diving /\ ~has_swim

sport_match(text, sport) ==
    IF is_diving_only_for_swim_target(text, sport) THEN FALSE
    ELSE LET tks == sport_tokens(sport)
         IN  IF tks = {} THEN TRUE ELSE \E tok \in tks : Contains(text, tok)

\* lines 445-451 and 475-480 without the sport filter
TargetBlocks_role_only(soup, sport, require_sport_match) ==
    LET blocks == find_candidate_blocks(soup)
    IN  {i \in DOMAIN blocks : is_target_block(block_text(blocks[i]))}

\* the blocks of a page that the filters of lines 445-451 and 475-480 let through
TargetBlocks(soup, sport, require_sport_match) ==
    LET blocks == find_candidate_blocks(soup)
    IN  {i \in DOMAIN blocks :
            /\ is_target_block(block_text(blocks[i]))
            /\ (require_sport_match => sport_match(block_text(blocks[i]), sport))}

BIO_PATH_MARKERS ==
    << <<"/","s","t","a","f","f">>, <<"/","c","o","a","c","h","e","s">>, <<"/","c","o","a","c","h">>, <<"/","p","e","o","p","l","e">>, <<"/","p","e","r","s","o","n">>, <<"/","b","i","o">>, <<"/","r","o","s","t","e","r">> >>

\* lines 453-458: the hrefs of a block that line 460 joins
Hrefs(b) ==
    {h \in {Strip(b.hrefs[i]) : i \in DOMAIN b.hrefs} :
        /\ h # <<>>
        /\ ~OccursAt(h, <<"m","a","i","l","t","o",":">>, 1)
        /\ ~OccursAt(h, <<"t","e","l",":">>, 1)}

\* lines 461-466 for the joined hrefs of a block, or {ValueError} when urljoin
\* (line 460, in no try) raised on one of them
BioLinksAmong(abs_urls, base_url) ==
    IF ValueError \in abs_urls THEN {ValueError}
    ELSE {u \in abs_urls :
            /\ is_same_domain(u, base_url)
            /\ \E i \in DOMAIN BIO_PATH_MARKERS :
                  Contains(Lower(path(u)), BIO_PATH_MARKERS[i])}

\* the links lines 453-466 add for one block
BlockBioLinks(b, base_url) ==
    BioLinksAmong({urljoin(base_url, h) : h \in Hrefs(b)}, base_url)

\* line 468, or <<ValueError>> when the loop raised
SortedLinks(links) == IF ValueError \in links THEN <<ValueError>> ELSE Sorted(links)

collect_bio_links_from_target_blocks(soup, base_url, sport, require_sport_match) ==
    SortedLinks(UNION {BlockBioLinks(find_candidate_blocks(soup)[i], base_url) :
                         i \in TargetBlocks(soup, sport, require_sport_match)})

extract_target_emails_from_page(html, base_url, sport, require_sport_match) ==
    LET blocks == find_candidate_blocks(html)
    IN  UNION {emails_in_block(blocks[i]) :
                i \in TargetBlocks(html, sport, require_sport_match)}

\* the orders sorted(emails, key=lambda x: x.lower()) can give: the sort is stable
\* on the iteration order of the set, which is not fixed for equal keys
RECURSIVE SortedByLower(_)
SortedByLower(es) ==
    IF es = {} THEN {<<>>}
    ELSE UNION {{<<m>> \o q : q \in SortedByLower(es \ {m})} :
                  m \in {x \in es : \A y \in es : ~StrLess(Lower(y), Lower(x))}}

\* ", ".join(q)
RECURSIVE Join(_)
Join(q) ==
    IF q = <<>> THEN <<>>
    ELSE IF Len(q) = 1 THEN q[1]
    ELSE q[1] \o <<","," ">> \o Join(Tail(q))

\* the strings join_emails(emails) can return
join_emails(es) == {Join(q) : q \in SortedByLower(es)}

-----------------------------------------------------------------------------
(* The web the run scrapes: canned pages                                   *)

El(text, hrefs, attrs) == [text |-> text, hrefs |-> hrefs, attrs |-> attrs]

\* text, hrefs and attrs of an element that contains the elements els, in order
RECURSIVE Enclose(_)
Enclose(els) ==
    IF els = <<>> THEN El(<<>>, <<>>, {})
    ELSE LET rest == Enclose(Tail(els))
         IN  El(IF rest.text = <<>> THEN els[1].text
                ELSE IF els[1].text = <<>> THEN rest.text
                ELSE els[1].text \o <<" ">> \o rest.text,
                els[1].hrefs \o rest.hrefs,
                els[1].attrs \cup rest.attrs)

\* a parsed page whose only elements are els, all matched by selector sel
Soup(sel, els) ==
    [match |-> [s \in Selectors |-> IF s = sel THEN els ELSE <<>>],
     body  |-> <<Enclose(els)>>,
     doc   |-> Enclose(els)]

SPORT_MBB   == <<"M","e","n","'","s"," ","B","a","s","k","e","t","b","a","l","l">>
SPORT_WSWIM == <<"W","o","m","e","n","'","s"," ","S","w","i","m","m","i","n","g"," ","&"," ","D","i","v","i","n","g">>
SPORT_TEN   == <<"T","e","n","n","i","s">>

URL_A      == <<"h","t","t","p","s",":","/","/","a",".","e","d","u","/","m","b","b","/","c","o","a","c","h","e","s">>
URL_B      == <<"h","t","t","p","s",":","/","/","b",".","e","d","u","/","w","s","w","i","m","/","c","o","a","c","h","e","s">>
URL_C      == <<"h","t","t","p","s",":","/","/","c",".","e","d","u","/","m","b","b">>
URL_C_DIR  == <<"h","t","t","p","s",":","/","/","c",".","e","d","u","/","s","t","a","f","f","-","d","i","r","e","c","t","o","r","y">>
URL_D      == <<"h","t","t","p","s",":","/","/","d",".","e","d","u","/","w","s","w","i","m">>
URL_D_DIR  == <<"h","t","t","p","s",":","/","/","d",".","e","d","u","/","s","t","a","f","f">>
URL_H      == <<"h","t","t","p","s",":","/","/","h",".","e","d","u","/","t","e","n","n","i","s","/","c","o","a","c","h","e","s">>
URL_H_DIR  == <<"h","t","t","p","s",":","/","/","h",".","e","d","u","/","s","t","a","f","f">>

\* a.edu: a roster table; one row is a graduate assistant with an obfuscated address
PAGE_A ==
    Soup("table tr",
         << El(<<"A","l"," ","A","s","h"," ","A","s","s","i","s","t","a","n","t"," ","C","o","a","c","h">>, <<<<"m","a","i","l","t","o",":","a","l","@","a",".","e","d","u">>>>, {}),
            El(<<"B","o"," ","B","a","y"," ","A","s","s","i","s","t","a","n","t"," ","C","o","a","c","h">>, <<<<"m","a","i","l","t","o",":","b","o","@","a",".","e","d","u">>>>, {}),
            El(<<"G","r","a","d","u","a","t","e"," ","A","s","s","i","s","t","a","n","t"," ","-"," ","J","a","n","e"," ","R","o","e"," ","-"," ","j","a","n","e","[","a","t","]","a","[","d","o","t","]","e","d","u">>, <<>>, {}),
            El(<<"C","y"," ","C","o","x"," ","A","s","s","i","s","t","a","n","t"," ","C","o","a","c","h">>, <<<<"m","a","i","l","t","o",":","c","y","@","a",".","e","d","u","?","s","u","b","j","e","c","t","=","H","i">>>>, {}),
            El(<<"D","i"," ","D","o","w"," ","A","s","s","i","s","t","a","n","t"," ","C","o","a","c","h"," ","d","i"," ","[","a","t","]"," ","a",".","e","d","u">>, <<>>, {}),
            El(<<"E","d"," ","E","c","k"," ","A","s","s","i","s","t","a","n","t"," ","C","o","a","c","h">>, <<<<"m","a","i","l","t","o",":"," ","e","d","@","a",".","e","d","u"," ">>>>, {}) >>)

\* b.edu: a list of coaches without addresses, with links to their bio pages
PAGE_B ==
    Soup("li",
         << El(<<"H","e","a","d"," ","C","o","a","c","h"," ","B","e","a"," ","B","o">>, <<<<"/","s","t","a","f","f","/","b","e","a">>>>, {}),
            El(<<"A","s","s","i","s","t","a","n","t"," ","C","o","a","c","h"," ","C","a","l">>, <<<<"/","s","t","a","f","f","/","c","a","l">>, <<"t","e","l",":","5","5","5">>>>, {}),
            El(<<"S","t","u","d","e","n","t"," ","A","s","s","i","s","t","a","n","t"," ","D","e","e">>, <<<<"/","s","t","a","f","f","/","d","e","e">>>>, {}),
            El(<<"R","e","c","r","u","i","t","i","n","g"," ","C","o","o","r","d","i","n","a","t","o","r"," ","G","i","a">>,
               <<<<"h","t","t","p","s",":","/","/","o","t","h","e","r",".","o","r","g","/","s","t","a","f","f","/","g","i","a">>, <<"/","n","e","w","s","/","g","i","a">>, <<" ","/","b","i","o","/","g","i","a"," ">>>>, {}),
            El(<<"T","i","c","k","e","t","s">>, <<<<"/","s","t","a","f","f","/","t","i","x">>>>, {}) >>)

PAGE_B_GIA == Soup("div", << El(<<"G","i","a"," ","R","e","c","r","u","i","t","i","n","g">>, <<>>, {<<"g","i","a","(","a","t",")","b",".","e","d","u">>}) >>)
PAGE_B_BEA == Soup("div", << El(<<"B","e","a"," ","B","o"," ","g","r","a","d","u","a","t","e"," ","a","s","s","i","s","t","a","n","t"," ","b","e","a","@","b",".","e","d","u">>, <<>>, {}) >>)
PAGE_B_CAL == Soup("div", << El(<<"C","a","l"," ","H","e","a","d"," ","C","o","a","c","h"," ","c","a","l","@","b",".","e","d","u">>, <<<<"m","a","i","l","t","o",":","C","a","l","@","B",".","e","d","u">>>>, {}) >>)

\* c.edu: a sport page with nothing on it, and a directory of all sports
PAGE_C == Soup("div", << El(<<"S","c","h","e","d","u","l","e"," ","a","n","d"," ","n","e","w","s">>, <<<<"/","n","e","w","s">>>>, {}) >>)

PAGE_C_DIR ==
    Soup("table tr",
         << El(<<"S","t","a","f","f"," ","D","i","r","e","c","t","o","r","y">>, <<>>, {}),
            El(<<"A","n","n"," ","H","e","a","d"," ","C","o","a","c","h"," ","M","e","n","'","s"," ","B","a","s","k","e","t","b","a","l","l">>, <<<<"m","a","i","l","t","o",":","a","n","n","@","c",".","e","d","u">>>>, {}),
            El(<<"B","e","n"," ","H","e","a","d"," ","C","o","a","c","h"," ","T","e","n","n","i","s">>, <<<<"m","a","i","l","t","o",":","b","e","n","@","c",".","e","d","u">>>>, {}),
            El(<<"C","a","t"," ","A","s","s","i","s","t","a","n","t"," ","C","o","a","c","h"," ","M","B","K","B"," ","c","a","t","@","c",".","e","d","u">>, <<>>, {}),
            El(<<"D","a","n"," ","E","q","u","i","p","m","e","n","t"," ","M","a","n","a","g","e","r"," ","M","e","n","'","s"," ","B","a","s","k","e","t","b","a","l","l"," ","d","a","n","@","c",".","e","d","u">>, <<>>, {}) >>)

\* d.edu: a directory whose swimming coaches have bio pages and no address
PAGE_D == Soup("div", << El(<<"N","e","w","s">>, <<>>, {}) >>)

PAGE_D_DIR ==
    Soup("li",
         << El(<<"S","w","i","m","m","i","n","g"," ","H","e","a","d"," ","C","o","a","c","h"," ","F","a","y">>, <<<<"/","c","o","a","c","h","e","s","/","f","a","y">>>>, {}),
            El(<<"D","i","v","i","n","g"," ","C","o","a","c","h"," ","G","u","y"," ","g","u","y","@","d",".","e","d","u">>, <<<<"/","c","o","a","c","h","e","s","/","g","u","y">>>>, {}),
            El(<<"T","e","n","n","i","s"," ","C","o","a","c","h"," ","H","a","l"," ","h","a","l","@","d",".","e","d","u">>, <<<<"/","c","o","a","c","h","e","s","/","h","a","l">>>>, {}),
            El(<<"S","w","i","m"," ","&"," ","D","i","v","e"," ","A","s","s","i","s","t","a","n","t"," ","C","o","a","c","h"," ","I","d","a">>, <<<<"/","c","o","a","c","h","e","s","/","i","d","a">>>>, {}),
            El(<<"A","t","h","l","e","t","i","c"," ","D","i","r","e","c","t","o","r">>, <<>>, {}) >>)

PAGE_D_FAY == Soup("div", << El(<<"F","a","y"," ","H","e","a","d"," ","C","o","a","c","h"," ","f","a","y","@","d",".","e","d","u">>, <<>>, {}) >>)
PAGE_D_IDA == Soup("div", << El(<<"I","d","a">>, <<<<"m","a","i","l","t","o",":","i","d","a","@","d",".","e","d","u">>>>, {}) >>)
PAGE_D_GUY == Soup("div", << El(<<"G","u","y"," ","D","i","v","i","n","g"," ","C","o","a","c","h"," ","g","u","y","@","d",".","e","d","u">>, <<>>, {}) >>)
PAGE_D_HAL == Soup("div", << El(<<"H","a","l"," ","T","e","n","n","i","s"," ","C","o","a","c","h"," ","h","a","l","@","d",".","e","d","u">>, <<>>, {}) >>)

\* h.edu: listing pages with more bio links than a run may follow
TwoDigits(k) == <<CodePoints[Ord["0"] + (k \div 10)], CodePoints[Ord["0"] + (k % 10)]>>

\* extract_from_bios: max_bios: int = 30
max_bios == 30

ManyLinks == max_bios + 1

PAGE_H ==
    Soup("li",
         << El(<<"T","e","n","n","i","s"," ","C","o","a","c","h","e","s">>, [k \in 1..ManyLinks |-> <<"/","r","o","s","t","e","r","/","p">> \o TwoDigits(k)], {}),
            El(<<"S","c","h","e","d","u","l","e">>, <<>>, {}), El(<<"N","e","w","s">>, <<>>, {}),
            El(<<"T","i","c","k","e","t","s">>, <<>>, {}), El(<<"S","h","o","p">>, <<>>, {}) >>)

PAGE_H_DIR ==
    Soup("li",
         << El(<<"T","e","n","n","i","s"," ","C","o","a","c","h","i","n","g"," ","S","t","a","f","f">>, [k \in 1..ManyLinks |-> <<"/","s","t","a","f","f","/","p">> \o TwoDigits(k)], {}),
            El(<<"S","c","h","e","d","u","l","e">>, <<>>, {}), El(<<"N","e","w","s">>, <<>>, {}),
            El(<<"T","i","c","k","e","t","s">>, <<>>, {}), El(<<"S","h","o","p">>, <<>>, {}) >>)

PAGE_H_BIO == Soup("div", << El(<<"P","r","o","f","i","l","e">>, <<>>, {}) >>)

\* l.edu: listing pages whose links are written in other ways than as paths; one
\* of the directory has a host that urlsplit rejects
URL_L     == <<"h","t","t","p","s",":","/","/","l",".","e","d","u","/","w","s","w","i","m","/","c","o","a","c","h","e","s">>
URL_L_DIR == <<"h","t","t","p","s",":","/","/","l",".","e","d","u","/","s","t","a","f","f">>

PAGE_L ==
    Soup("li",
         << El(<<"H","e","a","d"," ","C","o","a","c","h"," ","B","e","a"," ","B","o">>,
               << <<"/","s","t","a","f","f","/","l","o","g","i","n","?","n","e","x","t","=","h","t","t","p","s",":","/","/","l",".","e","d","u","/","x">>, <<"#","t","o","p">>, <<"?","p","a","g","e","=","2">>, <<"/","s","t","a","f","f","/","b","e","a","?">>,
                  <<"j","a","v","a","s","c","r","i","p","t",":","v","o","i","d","(","0",")">>, <<"M","A","I","L","T","O",":","b","e","a","@","l",".","e","d","u">>, <<"H","T","T","P","S",":","/","/","L",".","e","d","u","/","b","i","o","/","b","e","a",";","v","=","1">>,
                  <<".",".","/","p","e","o","p","l","e","/",".","/","b","e","a">>, <<"/","/","[",":",":","1","]","/","s","t","a","f","f","/","b","e","a">> >>, {}),
            El(<<"S","c","h","e","d","u","l","e">>, <<>>, {}),
            El(<<"R","o","s","t","e","r">>, <<>>, {}),
            El(<<"N","e","w","s">>, <<>>, {}),
            El(<<"T","i","c","k","e","t","s">>, <<>>, {}) >>)

PAGE_L_DIR ==
    Soup("li",
         << El(<<"S","w","i","m","m","i","n","g"," ","H","e","a","d"," ","C","o","a","c","h"," ","F","a","y">>, <<<<"/","c","o","a","c","h","e","s","/","f","a","y">>, <<"/","/","[","s","t","a","f","f","]","/","b","e","a">>>>, {}),
            El(<<"T","e","n","n","i","s"," ","C","o","a","c","h"," ","H","a","l">>, <<<<"/","c","o","a","c","h","e","s","/","h","a","l">>>>, {}),
            El(<<"A","t","h","l","e","t","i","c"," ","D","i","r","e","c","t","o","r">>, <<>>, {}),
            El(<<"C","o","m","p","l","i","a","n","c","e">>, <<>>, {}),
            El(<<"F","a","c","i","l","i","t","i","e","s">>, <<>>, {}) >>)

\* the page a successful GET of u returns
Web(u) ==
    CASE u = URL_A -> PAGE_A
      [] u = URL_B -> PAGE_B
      [] u = <<"h","t","t","p","s",":","/","/","b",".","e","d","u","/","b","i","o","/","g","i","a">> -> PAGE_B_GIA
      [] u = <<"h","t","t","p","s",":","/","/","b",".","e","d","u","/","s","t","a","f","f","/","b","e","a">> -> PAGE_B_BEA
      [] u = <<"h","t","t","p","s",":","/","/","b",".","e","d","u","/","s","t","a","f","f","/","c","a","l">> -> PAGE_B_CAL
      [] u = URL_C -> PAGE_C
      [] u = URL_C_DIR -> PAGE_C_DIR
      [] u = URL_D -> PAGE_D
      [] u = URL_D_DIR -> PAGE_D_DIR
      [] u = <<"h","t","t","p","s",":","/","/","d",".","e","d","u","/","c","o","a","c","h","e","s","/","f","a","y">> -> PAGE_D_FAY
      [] u = <<"h","t","t","p","s",":","/","/","d",".","e","d","u","/","c","o","a","c","h","e","s","/","i","d","a">> -> PAGE_D_IDA
      [] u = <<"h","t","t","p","s",":","/","/","d",".","e","d","u","/","c","o","a","c","h","e","s","/","g","u","y">> -> PAGE_D_GUY
      [] u = <<"h","t","t","p","s",":","/","/","d",".","e","d","u","/","c","o","a","c","h","e","s","/","h","a","l">> -> PAGE_D_HAL
      [] u = URL_H -> PAGE_H
      [] u = URL_H_DIR -> PAGE_H_DIR
      [] u = URL_L -> PAGE_L
      [] u = URL_L_DIR -> PAGE_L_DIR
      [] OTHER -> PAGE_H_BIO

Target(university, sport, url, staff_directory_url) ==
    [university |-> university, sport |-> sport, url |-> url,
     staff_directory_url |-> staff_directory_url]

\* the rows of the input CSV, as lines 579-599 build them (fields stripped)
CSV ==
    << Target("A", SPORT_MBB, URL_A, URL_C_DIR),
       Target("B", SPORT_WSWIM, URL_B, <<>>),
       Target("C", SPORT_MBB, URL_C, URL_C_DIR),
       Target("D", SPORT_WSWIM, URL_D, URL_D_DIR),
       Target("E", SPORT_TEN, URL_C, <<>>) >>

CSV_H == << Target("H", SPORT_TEN, URL_H, URL_H_DIR) >>

CSV_L == << Target("L", SPORT_WSWIM, URL_L, URL_L_DIR) >>

-----------------------------------------------------------------------------
(* The run: lines 564-657, process_one_target and extract_from_bios         *)

\* fetch(session, url): the page, or the exception raise_for_status or the
\* transport raises
fetch(url, ok) == [raised |-> ~ok, text |-> IF ok THEN <<Web(url)>> ELSE <<>>]

\* a session.get call and a time.sleep call, as recorded in io
Get(kind, url, ok) ==
    [op |-> "get", kind |-> kind, url |-> url, ok |-> ok, target |-> idx, stage |-> stage]
Sleep(kind) ==
    [op |-> "sleep", kind |-> kind, url |-> <<>>, ok |-> TRUE, target |-> idx, stage |-> stage]

NoYield == [k \in 1..4 |-> <<>>]
NoHist  == [yield |-> NoYield, at |-> [k \in 1..4 |-> 0], returned |-> <<>>]
NoBios  == [bio_links |-> <<>>, found |-> <<>>, i |-> 1, emails |-> {}, start |-> 0]
NoPages == [html |-> <<>>, sd_html |-> <<>>]
NoUi    == [error |-> <<>>, output |-> <<>>]

\* what stage k yielded, recorded with the number n of I/O calls made by then
Yielded(k, es, n) ==
    [hist EXCEPT !.yield[k] = <<es>>, !.at[k] = n]

\* q[:n]
Take(q, n) == SubSeq(q, 1, IF Len(q) < n THEN Len(q) ELSE n)

\* lines 495-500 without the [:max_bios] slice
bio_links_uncapped(soup, base_url, sport, require_sport_match) ==
    collect_bio_links_from_target_blocks(soup, base_url, sport, require_sport_match)

\* lines 495-500: the bio links a call of extract_from_bios follows
bio_links_of(soup, base_url, sport, require_sport_match) ==
    Take(collect_bio_links_from_target_blocks(soup, base_url, sport, require_sport_match),
         max_bios)

\* lines 494-502: extract_from_bios is entered; bio_links is <<ValueError>> when
\* line 495 raises
EnterBios(soup, base_url, sport, require_sport_match) ==
    [bio_links |-> bio_links_of(soup, base_url, sport, require_sport_match),
     found |-> collect_bio_links_from_target_blocks(soup, base_url, sport,
                                                    require_sport_match),
     i |-> 1, emails |-> {}, start |-> Len(io)]

\* lines 504-515 with a failed fetch ending the loop
bio_iteration_break(b, u, ok) ==
    LET r == fetch(u, ok)
    IN  IF r.raised
        THEN [emails |-> b.emails, slept |-> TRUE, i |-> Len(b.bio_links) + 1]
        ELSE LET bio_soup == r.text[1]
                 bio_text == norm(deobfuscate(bio_soup.doc.text))
             IN  IF is_excluded_block(bio_text)
                 THEN [emails |-> b.emails, slept |-> FALSE, i |-> b.i + 1]
                 ELSE [emails |-> b.emails \cup extract_emails_anywhere(bio_soup),
                       slept |-> TRUE, i |-> b.i + 1]

\* lines 504-515: one iteration of the loop over bio_links, for the link u and
\* the outcome ok of its fetch: the local set, whether line 515 slept, and the
\* position of the next iteration
bio_iteration(b, u, ok) ==
    LET r == fetch(u, ok)
    IN  IF r.raised
        THEN [emails |-> b.emails, slept |-> TRUE, i |-> b.i + 1]
        ELSE LET bio_soup == r.text[1]
                 bio_text == norm(deobfuscate(bio_soup.doc.text))
             IN  IF is_excluded_block(bio_text)
                 THEN [emails |-> b.emails, slept |-> FALSE, i |-> b.i + 1]
                 ELSE [emails |-> b.emails \cup extract_emails_anywhere(bio_soup),
                       slept |-> TRUE, i |-> b.i + 1]

\* line 528 and line 537: the bio fallback runs if nothing was found so far
enters_bios(found) == found = {}

\* line 531 without its "not emails" test
enters_directory_always(found, staff_directory_url) ==
    Strip(staff_directory_url) # <<>>

\* line 531: the directory stages run if nothing was found and there is a directory
enters_directory(found, staff_directory_url) ==
    found = {} /\ Strip(staff_directory_url) # <<>>

\* an exception leaves process_one_target and the loop of line 618 and is caught
\* at line 656: st.error(str(e)); nothing after line 625 runs.  The exception
\* is named by the url whose fetch failed, or is ValueError
Raise(e) ==
    /\ pc' = "error"
    /\ ui' = [ui EXCEPT !.error = <<e>>]

\* line 495 has returned the links of b, and the loop of line 503 starts, or it
\* has raised
BiosEntered(b) ==
    IF b.bio_links = <<ValueError>>
    THEN /\ Raise(ValueError)
         /\ UNCHANGED bios
    ELSE /\ bios' = b
         /\ pc' = "bio"
         /\ UNCHANGED ui

\* lines 618-625: the next target; process_one_target is entered
LoopNext ==
    /\ pc = "loop"
    /\ idx < Len(targets)
    /\ idx' = idx + 1
    /\ pc' = "fetch_url"
    /\ stage' = 1
    /\ emails' = {}
    /\ pages' = NoPages
    /\ bios' = NoBios
    /\ hist' = NoHist
    /\ UNCHANGED <<targets, results, logs, ui, io, budget, probe>>

\* lines 525-526: stage 1, the sport page is fetched and scanned
FetchUrl ==
    /\ pc = "fetch_url"
    /\ \E ok \in BOOLEAN :
        LET t == targets[idx]
            r == fetch(t.url, ok)
        IN  /\ ok \/ budget > 0
            /\ budget' = IF ok THEN budget ELSE budget - 1
            /\ io' = Append(io, Get("url", t.url, ok))
            /\ IF r.raised
               THEN /\ Raise(t.url)
                    /\ UNCHANGED <<emails, pages, hist>>
               ELSE /\ pages' = [pages EXCEPT !.html = r.text]
                    /\ LET found == extract_target_emails_from_page(r.text[1], t.url,
                                                                    t.sport, FALSE)
                       IN  /\ emails' = emails \cup found
                           /\ hist' = Yielded(1, found, Len(io) + 1)
                    /\ pc' = "check_bios"
                    /\ UNCHANGED ui
    /\ UNCHANGED <<targets, idx, stage, bios, results, logs, probe>>

\* lines 528-529 and 494-502: stage 2 is entered if stage 1 found nothing; an
\* exception of line 495 (urljoin, line 460) leaves the run
CheckBios ==
    /\ pc = "check_bios"
    /\ LET t == targets[idx]
       IN  IF enters_bios(emails)
           THEN /\ stage' = 2
                /\ BiosEntered(EnterBios(pages.html[1], t.url, t.sport, FALSE))
           ELSE /\ pc' = "check_sd"
                /\ UNCHANGED <<stage, bios, ui>>
    /\ UNCHANGED <<targets, idx, emails, pages, results, logs, io, hist, budget, probe>>

\* lines 503-515: one bio page is fetched and scanned
BioFetch ==
    /\ pc = "bio"
    /\ bios.i <= Len(bios.bio_links)
    /\ \E ok \in BOOLEAN :
        LET u == bios.bio_links[bios.i]
            r == bio_iteration(bios, u, ok)
        IN  /\ ok \/ budget > 0
            /\ budget' = IF ok THEN budget ELSE budget - 1
            /\ io' = IF r.slept
                     THEN io \o <<Get("bio", u, ok), Sleep("bio")>>
                     ELSE Append(io, Get("bio", u, ok))
            /\ bios' = [bios EXCEPT !.emails = r.emails, !.i = r.i]
    /\ UNCHANGED <<targets, idx, pc, stage, emails, pages, results, logs, ui, hist, probe>>

\* line 517, and the update of line 529 or 538
BioReturn ==
    /\ pc = "bio"
    /\ bios.i > Len(bios.bio_links)
    /\ emails' = emails \cup bios.emails
    /\ hist' = Yielded(stage, bios.emails, Len(io))
    /\ pc' = IF stage = 2 THEN "check_sd" ELSE "return"
    /\ UNCHANGED <<targets, idx, stage, pages, bios, results, logs, ui, io, budget, probe>>

\* lines 531-532: stage 3 is entered if nothing was found and there is a directory
CheckSd ==
    /\ pc = "check_sd"
    /\ IF enters_directory(emails, targets[idx].staff_directory_url)
       THEN /\ stage' = 3
            /\ pc' = "fetch_sd"
       ELSE /\ pc' = "return"
            /\ UNCHANGED stage
    /\ UNCHANGED <<targets, idx, emails, pages, bios, results, logs, ui, io, hist, budget, probe>>

\* lines 533-535: stage 3, the staff directory is fetched and scanned
FetchSd ==
    /\ pc = "fetch_sd"
    /\ \E ok \in BOOLEAN :
        LET t   == targets[idx]
            sdu == Strip(t.staff_directory_url)
            r   == fetch(sdu, ok)
        IN  /\ ok \/ budget > 0
            /\ budget' = IF ok THEN budget ELSE budget - 1
            /\ io' = Append(io, Get("sd", sdu, ok))
            /\ IF r.raised
               THEN /\ Raise(sdu)
                    /\ UNCHANGED <<emails, pages, hist>>
               ELSE /\ pages' = [pages EXCEPT !.sd_html = r.text]
                    /\ LET found == extract_target_emails_from_page(r.text[1], sdu,
                                                                    t.sport, TRUE)
                       IN  /\ emails' = emails \cup found
                           /\ hist' = Yielded(3, found, Len(io) + 1)
                    /\ pc' = "check_sd_bios"
                    /\ UNCHANGED ui
    /\ UNCHANGED <<targets, idx, stage, bios, results, logs, probe>>

\* lines 537-538 and 494-502: stage 4 is entered if stage 3 found nothing; an
\* exception of line 495 (urljoin, line 460) leaves the run
CheckSdBios ==
    /\ pc = "check_sd_bios"
    /\ LET t == targets[idx]
       IN  IF enters_bios(emails)
           THEN /\ stage' = 4
                /\ BiosEntered(EnterBios(pages.sd_html[1], Strip(t.staff_directory_url),
                                         t.sport, TRUE))
           ELSE /\ pc' = "return"
                /\ UNCHANGED <<stage, bios, ui>>
    /\ UNCHANGED <<targets, idx, emails, pages, results, logs, io, hist, budget, probe>>

\* lines 540-541 and 625-632: the pause, the return, and the result row
Return ==
    /\ pc = "return"
    /\ io' = Append(io, Sleep("target"))
    /\ hist' = [hist EXCEPT !.returned = <<emails>>]
    /\ \E joined \in join_emails(emails) :
          results' = Append(results, [university |-> targets[idx].university,
                                      emails |-> joined])
    /\ logs' = Append(logs, <<idx, Len(targets), targets[idx].university, Cardinality(emails)>>)
    /\ pc' = "loop"
    /\ UNCHANGED <<targets, idx, stage, emails, pages, bios, ui, budget, probe>>

\* lines 634-654: the loop is over, the output CSV is built and offered
Finish ==
    /\ pc = "loop"
    /\ idx = Len(targets)
    /\ ui' = [ui EXCEPT !.output = <<results>>]
    /\ pc' = "done"
    /\ UNCHANGED <<targets, idx, stage, emails, pages, bios, results, logs, io, hist, budget, probe>>

Next ==
    \/ LoopNext
    \/ FetchUrl
    \/ CheckBios
    \/ BioFetch
    \/ BioReturn
    \/ CheckSd
    \/ FetchSd
    \/ CheckSdBios
    \/ Return
    \/ Finish

\* the ordered sub-lists of q with at most n rows and at least one
SubLists(q, n) ==
    {[i \in 1..Cardinality(S) |->
        q[CHOOSE j \in S : Cardinality({k \in S : k < j}) = i - 1]] :
        S \in {T \in SUBSET DOMAIN q : T # {} /\ Cardinality(T) <= n}}

MaxTargets  == 2
MaxFailures == 2

InitRun(rows, failures) ==
    /\ targets \in rows
    /\ budget \in failures
    /\ idx = 0
    /\ pc = "loop"
    /\ stage = 0
    /\ emails = {}
    /\ pages = NoPages
    /\ bios = NoBios
    /\ results = <<>>
    /\ logs = <<>>
    /\ ui = NoUi
    /\ io = <<>>
    /\ hist = NoHist
    /\ probe = <<>>

Init == InitRun(SubLists(CSV, MaxTargets), {MaxFailures})

Spec == Init /\ [][Next]_vars

\* one target whose listing pages have more bio links than max_bios, or one
\* whose listing pages have links of every form
InitFanout == InitRun({CSV_H, CSV_L}, {0, 1})

SpecFanout == InitFanout /\ [][Next]_vars

-----------------------------------------------------------------------------
(* The classifier and the segmenter exercised on their own                 *)

InitIdle ==
    /\ targets = <<>>
    /\ budget = 0
    /\ idx = 0
    /\ pc = "idle"
    /\ stage = 0
    /\ emails = {}
    /\ pages = NoPages
    /\ bios = NoBios
    /\ results = <<>>
    /\ logs = <<>>
    /\ ui = NoUi
    /\ io = <<>>
    /\ hist = NoHist

Idle == UNCHANGED <<targets, idx, pc, stage, emails, pages, bios, results, logs, ui, io, hist, budget>>

\* the texts a staff row is made of
ROLE_PHRASES ==
    << <<"G","r","a","d","u","a","t","e"," ","A","s","s","i","s","t","a","n","t">>, <<"S","t","u","d","e","n","t"," ","A","s","s","t">>, <<"G","A">>, <<"G",".","A",".">>, <<"A","s","s","i","s","t","a","n","t"," ","C","o","a","c","h">>,
       <<"D","i","r","e","c","t","o","r"," ","o","f"," ","R","e","c","r","u","i","t","i","n","g">>, <<"J","a","n","e"," ","R","o","e">>, <<"S","a","g","a"," ","G","a","r","a","g","e">>, <<"H","e","a","d"," ","C","o","a","c","h"," ","(","S",".","A",".",")">> >>

MaxPhrases == 2

\* the phrases q[1], ..., q[n] separated by spaces
RECURSIVE Phrase(_)
Phrase(q) ==
    IF q = <<>> THEN <<>>
    ELSE IF Len(q) = 1 THEN ROLE_PHRASES[q[1]]
    ELSE ROLE_PHRASES[q[1]] \o <<" ">> \o Phrase(Tail(q))

RowTexts == {Phrase(q) : q \in UNION {[1..n -> DOMAIN ROLE_PHRASES] : n \in 1..MaxPhrases}}

\* a staff row with the text t and an obfuscated address
StaffRow(t) == El(t \o <<" ","-"," ","j","a","n","e","[","a","t","]","a","[","d","o","t","]","e","d","u">>, <<>>, {})

\* the roster table of a.edu with the row t as its third row
RosterWith(t) == Soup("table tr", [PAGE_A.match["table tr"] EXCEPT ![3] = StaffRow(t)])

InitRole ==
    /\ InitIdle
    /\ probe \in {[text |-> t, out |-> <<>>] : t \in RowTexts}

\* lines 342-345 on the row, and lines 470-483 on the table it is in
Classify ==
    /\ probe.out = <<>>
    /\ probe' = [probe EXCEPT !.out =
          << [target |-> is_target_block(block_text(StaffRow(probe.text))),
              found  |-> extract_target_emails_from_page(RosterWith(probe.text), URL_A,
                                                         SPORT_MBB, FALSE)] >>]
    /\ Idle

NextRole == Classify

SpecRole == InitRole /\ [][NextRole]_vars

\* the numbers of matches a selector has on a page
MatchCounts == {0, MIN_BLOCKS - 1, MIN_BLOCKS, MAX_BLOCKS, MAX_BLOCKS + 1}

\* the numbers of rows "table tr" matches: the threshold has no upper bound
RowCounts == {MIN_BLOCKS - 1, MIN_BLOCKS, MAX_BLOCKS + 1}

MaxMatched == 2

\* the i-th element that a selector matches
Node(sel, i) == [tag |-> sel, pos |-> i]

\* a parsed page with counts[s] matches of selector s
SoupOf(counts, has_body) ==
    [match |-> [s \in Selectors |-> [i \in 1..counts[s] |-> Node(s, i)]],
     body  |-> IF has_body THEN <<Node("body", 1)>> ELSE <<>>,
     doc   |-> Node("[document]", 1)]

InitSegment ==
    /\ InitIdle
    /\ \E S \in {T \in SUBSET Range(selectors) : Cardinality(T) <= MaxMatched} :
       \E f \in [S -> MatchCounts \ {0}] :
       \E rows \in RowCounts :
       \E has_body \in BOOLEAN :
          probe = [counts |-> [s \in Selectors |-> IF s = "table tr" THEN rows
                                                   ELSE IF s \in S THEN f[s] ELSE 0],
                   has_body |-> has_body, out |-> <<>>, again |-> <<>>]

\* lines 306-328, called twice on the same page
Segment ==
    /\ probe.out = <<>>
    /\ probe' = [probe EXCEPT
          !.out   = <<find_candidate_blocks(SoupOf(probe.counts, probe.has_body))>>,
          !.again = <<find_candidate_blocks(SoupOf(probe.counts, probe.has_body))>>]
    /\ Idle

NextSegment == Segment

SpecSegment == InitSegment /\ [][NextSegment]_vars

-----------------------------------------------------------------------------
(* The sport filter exercised on its own                                    *)

SPORT_SWIM == <<"S","w","i","m","m","i","n","g">>

\* the target sports of the probe: two swim targets and two others
SPORTS == {SPORT_WSWIM, SPORT_SWIM, SPORT_MBB, SPORT_TEN}

\* the words a staff line says about the sport, and what follows a word
SPORT_WORDS == << <<"D","i","v","i","n","g">>, <<"D","i","v","e">>, <<"D","i","v","e","r">>, <<"S","w","i","m","m","i","n","g">>, <<"S","w","i","m">>, <<"W","o","m","e","n","'","s">> >>

WORD_ENDS == << <<" ">>, <<","," ">>, <<" ","&"," ">> >>

MaxWords == 2

\* the words q[1], ..., q[n], each with its ending
RECURSIVE Line(_)
Line(q) ==
    IF q = <<>> THEN <<>>
    ELSE SPORT_WORDS[q[1][1]] \o WORD_ENDS[q[1][2]] \o Line(Tail(q))

\* the staff lines: a name, up to MaxWords words, and the role
StaffLines ==
    {<<"J","a","n","e"," ","D","o","e",","," ">> \o Line(q) \o <<"C","o","a","c","h">> :
        q \in UNION {[1..n -> (DOMAIN SPORT_WORDS) \X (DOMAIN WORD_ENDS)] : n \in 1..MaxWords}}

InitSport ==
    /\ InitIdle
    /\ probe \in {[sport |-> sp, text |-> block_text(El(t, <<>>, {})), out |-> <<>>] :
                     sp \in SPORTS, t \in StaffLines}

\* lines 426-434 on the text of a block, and the rule of lines 407-424 alone
Match ==
    /\ probe.out = <<>>
    /\ probe' = [probe EXCEPT !.out =
          << [match       |-> sport_match(probe.text, probe.sport),
              diving_only |-> is_diving_only_for_swim_target(probe.text, probe.sport)] >>]
    /\ Idle

NextSport == Match

SpecSport == InitSport /\ [][NextSport]_vars

-----------------------------------------------------------------------------
(* Properties                                                              *)

IsGet(p)    == io[p].op = "get"
IsBioGet(p) == io[p].op = "get" /\ io[p].kind = "bio"

\* the stages of the target in progress that have yielded a non-empty set
Fruitful == {k \in 1..4 : hist.yield[k] # <<>> /\ hist.yield[k][1] # {}}

\* C1 (state part): a stage is in progress only if every earlier stage of the
\* target has yielded the empty set; after a stage has yielded a non-empty set
\* no later stage is entered and no fetch is made for the target, and the set
\* returned is that stage's set; the directory stages are in progress only for a
\* target with a non-empty staff_directory_url.
C1_Stages ==
    /\ stage \in 0..4
    /\ \A j \in 1..(stage - 1) : hist.yield[j] = <<{}>>
    /\ \A k \in Fruitful :
          /\ k = stage
          /\ \A p \in (hist.at[k] + 1)..Len(io) : ~IsGet(p)
          /\ hist.returned # <<>> => hist.returned[1] = hist.yield[k][1]
    /\ (hist.returned # <<>> /\ Fruitful = {}) => hist.returned[1] = {}
    /\ stage >= 3 => targets[idx].staff_directory_url # <<>>

\* C1: the four stages of process_one_target run in order and never go back,
\* stage k+1 only after every earlier stage yielded nothing, and the first
\* non-empty stage ends the target with its set as the result.
C1_StagesForwardShortCircuit ==
    /\ []C1_Stages
    /\ [][idx' = idx => stage' >= stage]_vars

\* C1 witness: a target returned the non-empty set its directory scan yielded
C1_Witness ==
    /\ hist.returned # <<>>
    /\ stage = 3
    /\ hist.yield[3] # <<>>
    /\ hist.yield[3][1] # {}
    /\ hist.returned[1] = hist.yield[3][1]

\* C2: a failed fetch of the target's url or staff_directory_url never aborts
\* the target: the run is not in its exception handler because of it, and after
\* a failed fetch of the url of a target that has a directory, the next call the
\* run makes is the fetch of that directory.
C2_PageFetchFailureIsLocal ==
    \A p \in DOMAIN io :
        (IsGet(p) /\ io[p].kind \in {"url", "sd"} /\ ~io[p].ok) =>
            /\ pc # "error"
            /\ (io[p].kind = "url" /\ targets[io[p].target].staff_directory_url # <<>>) =>
                  \/ p = Len(io) /\ idx = io[p].target /\ pc \in {"check_bios", "check_sd", "bio", "fetch_sd"}
                  \/ /\ p < Len(io)
                     /\ IsGet(p + 1)
                     /\ io[p + 1].kind = "sd"
                     /\ io[p + 1].target = io[p].target

\* C3: the run ends with exactly one result row per target, in input order,
\* whatever fetches failed.
C3_RowForEveryTarget ==
    pc \in {"done", "error"} =>
        /\ ui.output # <<>>
        /\ Len(ui.output[1]) = Len(targets)
        /\ \A i \in DOMAIN targets : ui.output[1][i].university = targets[i].university

\* the positions in io of the bio fetches of the extract_from_bios call in bios
BioGets == {p \in (bios.start + 1)..Len(io) : IsBioGet(p) /\ io[p].target = idx}

\* C4: in extract_from_bios a failed bio fetch is skipped on its own: the links
\* before the loop position have all been fetched, one fetch each and in order;
\* the addresses of every fetched page that is not excluded by role are in the
\* local set; the set the call returns is that set; and the run is never in its
\* exception handler because of a bio fetch.
C4_BioFailureSkipped ==
    /\ bios.i \in 1..(Len(bios.bio_links) + 1)
    /\ Cardinality(BioGets) = bios.i - 1
    /\ \A k \in 1..(bios.i - 1) : \E p \in BioGets :
          /\ io[p].url = bios.bio_links[k]
          /\ Cardinality({q \in BioGets : q < p}) = k - 1
    /\ \A p \in BioGets :
          (io[p].ok /\ ~is_excluded_block(block_text(Web(io[p].url).doc))) =>
              extract_emails_anywhere(Web(io[p].url)) \subseteq bios.emails
    /\ \A k \in {2, 4} :
          (stage = k /\ hist.yield[k] # <<>>) =>
              /\ bios.i = Len(bios.bio_links) + 1
              /\ hist.yield[k][1] = bios.emails
              /\ bios.emails \subseteq emails
    /\ pc = "error" => io[Len(io)].kind # "bio"

\* C4 witness: a call returned the address of a bio page that it fetched after
\* another bio fetch of the same call had failed
C4_Witness ==
    /\ stage = 2
    /\ hist.yield[2] # <<>>
    /\ \E p, q \in BioGets :
          /\ p < q
          /\ ~io[p].ok
          /\ io[q].ok
          /\ extract_emails_anywhere(Web(io[q].url)) # {}
          /\ extract_emails_anywhere(Web(io[q].url)) \subseteq hist.yield[2][1]

\* C5: a pause separates every bio fetch from the next bio fetch, and the last
\* fetch of a target from the first fetch of the next target.
C5_PauseAfterEveryFetch ==
    \A p \in 1..(Len(io) - 1) :
        (IsGet(p) /\ IsGet(p + 1)) =>
            /\ ~(IsBioGet(p) /\ IsBioGet(p + 1))
            /\ io[p].target = io[p + 1].target

\* the blocks of the directory page of the target in progress that pass the role
\* filter and match the sport of the target
SportBlocks ==
    LET blocks == find_candidate_blocks(pages.sd_html[1])
    IN  {blocks[i] : i \in {j \in DOMAIN blocks :
            /\ is_target_block(block_text(blocks[j]))
            /\ sport_match(block_text(blocks[j]), targets[idx].sport)}}

\* C6: every address the directory scan yields is in a block of the directory
\* that passes the role filter and matches the sport of the target, and every
\* bio link the directory bio fallback follows is a link of such a block.
C6_DirectorySportFilter ==
    /\ hist.yield[3] # <<>> =>
          \A e \in hist.yield[3][1] : \E b \in SportBlocks : e \in emails_in_block(b)
    /\ stage = 4 =>
          /\ \A k \in DOMAIN bios.bio_links : \E b \in SportBlocks :
                bios.bio_links[k] \in BlockBioLinks(b, targets[idx].staff_directory_url)
          /\ \A p \in BioGets : \E b \in SportBlocks :
                io[p].url \in BlockBioLinks(b, targets[idx].staff_directory_url)

\* C6 witness: the directory scan yielded addresses, and none of a block that
\* passes the role filter, has an address, and does not match the sport
C6_Witness ==
    /\ hist.yield[3] # <<>>
    /\ hist.yield[3][1] # {}
    /\ LET blocks == find_candidate_blocks(pages.sd_html[1])
       IN  \E i \in DOMAIN blocks :
              /\ is_target_block(block_text(blocks[i]))
              /\ ~sport_match(block_text(blocks[i]), targets[idx].sport)
              /\ emails_in_block(blocks[i]) # {}
              /\ emails_in_block(blocks[i]) \cap hist.yield[3][1] = {}

\* the text of a block holds an excluded phrase or a whole-word GA/SA abbreviation
HasExcludedPhrase(text) ==
    \/ \E i \in DOMAIN EXCLUDE_ROLE_KEYWORDS : Contains(text, EXCLUDE_ROLE_KEYWORDS[i])
    \/ \E i \in DOMAIN EXCLUDE_ABBREV_PATTERNS : SearchWord(text, EXCLUDE_ABBREV_PATTERNS[i])

HasIncludedPhrase(text) ==
    \E i \in DOMAIN TARGET_ROLE_KEYWORDS : Contains(text, TARGET_ROLE_KEYWORDS[i])

\* the addresses of the five assistant coaches of the roster table of a.edu
OTHER_FIVE == {<<"a","l","@","a",".","e","d","u">>, <<"b","o","@","a",".","e","d","u">>, <<"c","y","@","a",".","e","d","u">>, <<"d","i","@","a",".","e","d","u">>, <<"e","d","@","a",".","e","d","u">>}

\* C7: a row whose normalized text holds an excluded phrase or a whole-word GA/SA
\* abbreviation is not a target block, whatever role phrases it also holds, and
\* the direct scan of the table it is in yields the addresses of the five other
\* rows and not the address of that row.
C7_ExclusionDominant ==
    (probe.out # <<>> /\ HasExcludedPhrase(block_text(StaffRow(probe.text)))) =>
        /\ ~probe.out[1].target
        /\ probe.out[1].found = OTHER_FIVE

\* C7 witness: a row with an excluded phrase and a role phrase was rejected, and
\* the scan yielded the five other addresses
C7_Witness ==
    /\ probe.out # <<>>
    /\ HasExcludedPhrase(block_text(StaffRow(probe.text)))
    /\ HasIncludedPhrase(block_text(StaffRow(probe.text)))
    /\ ~probe.out[1].target
    /\ probe.out[1].found = OTHER_FIVE

\* C8: the set a result row is built from never holds two addresses that are
\* equal when lowercased.
C8_CaseInsensitiveDedup ==
    hist.returned # <<>> =>
        \A e1, e2 \in hist.returned[1] : Lower(e1) = Lower(e2) => e1 = e2

\* the bio fetches made so far for the target in progress, in stage k
BioGetsOfStage(k) == {p \in DOMAIN io : IsBioGet(p) /\ io[p].target = idx /\ io[p].stage = k}

\* C9 as claimed: the bio pages fetched for one target, both bio fallbacks
\* counted together, never exceed max_bios.
C9_BioFetchesPerTarget ==
    Cardinality(BioGetsOfStage(2) \cup BioGetsOfStage(4)) <= max_bios

\* C9 as amended: each bio fallback of a target fetches at most max_bios bio
\* pages, so the two together fetch at most 2 * max_bios.
C9_BioFetchesPerFallback ==
    /\ Len(bios.bio_links) <= max_bios
    /\ Cardinality(BioGetsOfStage(2)) <= max_bios
    /\ Cardinality(BioGetsOfStage(4)) <= max_bios
    /\ Cardinality(BioGetsOfStage(2) \cup BioGetsOfStage(4)) <= 2 * max_bios
    /\ \A p \in DOMAIN io : IsBioGet(p) => io[p].stage \in {2, 4}

\* C9 witness: both fallbacks of a target fetched max_bios pages, each from a
\* listing with more bio links than that
C9_Witness ==
    /\ stage = 4
    /\ Len(bios.found) > max_bios
    /\ Cardinality(BioGetsOfStage(2)) = max_bios
    /\ Cardinality(BioGetsOfStage(4)) = max_bios

\* the selectors, by position in the list, with 5 to 400 matches on the probed page
Qualifying ==
    {n \in DOMAIN selectors :
        /\ probe.counts[selectors[n]] >= MIN_BLOCKS
        /\ probe.counts[selectors[n]] <= MAX_BLOCKS}

\* the matches of selector sel on the probed page, in document order
MatchesOf(sel) == [i \in 1..probe.counts[sel] |-> Node(sel, i)]

\* C10: find_candidate_blocks returns the table rows if there are at least 5;
\* otherwise the matches of the first selector of the list with 5 to 400 matches;
\* otherwise the body alone, or the document alone when there is no body.  The
\* result is never empty, and a second call on the same page returns the same.
C10_PriorityCascade ==
    probe.out # <<>> =>
        /\ probe.out[1] # <<>>
        /\ probe.again = probe.out
        /\ probe.out[1] =
              IF probe.counts["table tr"] >= MIN_BLOCKS THEN MatchesOf("table tr")
              ELSE IF Qualifying # {}
                   THEN MatchesOf(selectors[CHOOSE n \in Qualifying :
                                               \A m \in Qualifying : n <= m])
              ELSE IF probe.has_body THEN <<Node("body", 1)>>
              ELSE <<Node("[document]", 1)>>

\* C10 witness: fewer than 5 rows, an earlier selector with more than 400
\* matches was passed over, and the matches of a later one were returned
C10_Witness ==
    /\ probe.out # <<>>
    /\ probe.counts["table tr"] = MIN_BLOCKS - 1
    /\ \E m, n \in DOMAIN selectors :
          /\ m < n
          /\ probe.counts[selectors[m]] = MAX_BLOCKS + 1
          /\ probe.counts[selectors[n]] = MAX_BLOCKS
          /\ probe.out[1] = MatchesOf(selectors[n])

-----------------------------------------------------------------------------
\* the target sport mentions swim/swimming
SwimTarget == Contains(Lower(probe.sport), <<"s","w","i","m">>)

\* the block text mentions diving, dive or diver
MentionsDiving ==
    \/ Contains(probe.text, <<"d","i","v","i","n","g">>)
    \/ SearchWord(probe.text, <<"d","i","v","e">>)
    \/ Contains(probe.text, <<"d","i","v","e","r">>)

\* the block text contains a form of swim/swimming
MentionsSwim == Contains(probe.text, <<"s","w","i","m">>)

\* C11: for a target sport that mentions swim/swimming, sport_match returns False
\* for every block text that mentions diving, dive or diver and contains no form
\* of swim/swimming, even when a sport token occurs in the text; it returns True
\* for a block text that mentions both swimming and diving, such as "jane doe,
\* swimming & diving coach", and False for "jane doe, diving coach"; for a target
\* sport without swim the diving-only rule rejects no block.
C11_DivingOnlyExclusion ==
    probe.out # <<>> =>
        /\ SwimTarget /\ MentionsDiving /\ ~MentionsSwim => ~probe.out[1].match
        /\ SwimTarget /\ Contains(probe.text, <<"s","w","i","m","m","i","n","g">>) /\ Contains(probe.text, <<"d","i","v","i","n","g">>)
              => probe.out[1].match
        /\ SwimTarget /\ probe.text = <<"j","a","n","e"," ","d","o","e",","," ","d","i","v","i","n","g"," ","c","o","a","c","h">> => ~probe.out[1].match
        /\ ~SwimTarget => ~probe.out[1].diving_only
=============================================================================
